---- MODULE Spec2Model ----
(***************************************************************************)
(* A model of the CLRS B-tree of bnm3k/clrs_btree, revision with the item  *)
(* count and the invariant checker as a tree method (src/unnamed/part_002). *)
(*                                                                         *)
(* Nodes live in a heap: a sequence of node records, a node's address is   *)
(* its position in the sequence, and NilNode is the nil pointer.  A Go     *)
(* slice index i is the sequence index i+1.  The item and child arrays     *)
(* keep their full capacity (2t-1 and 2t slots), stale slots included, as  *)
(* the Go slices do.  A run-time panic (index out of range, nil pointer    *)
(* dereference, comparison with a nil item) ends the program: halted.      *)
(***************************************************************************)
EXTENDS Integers, Sequences, FiniteSets, TLC

\* ---------------------------------------------------------------- bounds
MaxT == 3
MaxKey == 7
MaxPayload == 2
\* Keys up to MaxReplaceKey are offered with every payload, the other keys
\* with payload 1 only.
MaxReplaceKey == 3
\* Hand-built structures given to checkInvariances: the degree of the
\* btree, the number of nodes, the number of items in all nodes together,
\* and the largest key.
CheckT == 2
MaxCheckNodes == 5
MaxCheckItems == 5
MaxCheckKey == 5

Degrees == 0..MaxT
Keys == 1..MaxKey
Payloads == 1..MaxPayload

\* ------------------------------------------------------------ the items
greaterThan == 1
equal == 0
lessThan == -1

\* An item is a key with a payload; only the key takes part in compare.
Items == {it \in [key : Keys, val : Payloads] : it.val = 1 \/ it.key <= MaxReplaceKey}
\* The nil item (the zero value of the interface type).
NoItem == [key |-> 0, val |-> 0]
\* The nil node pointer.
NilNode == 0

Compare(a, other) ==
    IF a.key < other.key THEN lessThan
    ELSE IF a.key = other.key THEN equal
    ELSE greaterThan

\* compare panics when the other operand is not a numItem (a nil item).
ComparePanics(other) == other = NoItem

\* ------------------------------------------------------------ the nodes
newNode(tt, isLeaf) ==
    [isLeaf   |-> isLeaf,
     n        |-> 0,
     items    |-> [j \in 1..(2 * tt - 1) |-> NoItem],
     children |-> IF isLeaf THEN << >> ELSE [j \in 1..(2 * tt) |-> NilNode]]

Min(a, b) == IF a < b THEN a ELSE b

\* Go's copy(dst[a:], src[b:]): min(len(dst)-a, len(src)-b) elements, with
\* memmove semantics when dst and src are the same array.
SliceCopy(dst, a, src, b) ==
    LET cnt == Min(Len(dst) - a, Len(src) - b)
    IN  [j \in 1..Len(dst) |->
            IF j - 1 >= a /\ j - 1 - a < cnt THEN src[j - a + b] ELSE dst[j]]

\* The scan loop shared by search, insertLeaf and insert:
\*   for i = from; i < n.n; i++ { switch x.compare(n.items[i]) ... }
\* It stops at the first item x is equal to or less than; c = greaterThan
\* says the loop ran to i = n.n.  panic: items[i] out of range or nil.
RECURSIVE Scan(_, _, _)
Scan(nd, x, i) ==
    IF i >= nd.n THEN [i |-> i, c |-> greaterThan, panic |-> FALSE]
    ELSE IF i >= Len(nd.items) \/ ComparePanics(nd.items[i + 1])
         THEN [i |-> i, c |-> greaterThan, panic |-> TRUE]
    ELSE LET c == Compare(x, nd.items[i + 1])
         IN  IF c = greaterThan THEN Scan(nd, x, i + 1)
             ELSE [i |-> i, c |-> c, panic |-> FALSE]

\* ---------------------------------------------------------- node.search
SearchPanic == [res |-> NoItem, ok |-> FALSE]

RECURSIVE NodeSearch(_, _, _)
NodeSearch(h, id, x) ==
    IF id = NilNode THEN SearchPanic
    ELSE
    LET nd == h[id]
        s  == Scan(nd, x, 0)
    IN  IF s.panic THEN SearchPanic
        ELSE IF s.c = equal THEN [res |-> nd.items[s.i + 1], ok |-> TRUE]
        ELSE IF s.c = lessThan
             THEN IF s.i >= Len(nd.children) THEN SearchPanic
                  ELSE NodeSearch(h, nd.children[s.i + 1], x)
        ELSE IF nd.isLeaf THEN [res |-> NoItem, ok |-> TRUE]
        ELSE LET lastChildIndex == Len(nd.children) - 1
             IN  IF lastChildIndex < 0 THEN SearchPanic
                 ELSE NodeSearch(h, nd.children[lastChildIndex + 1], x)

\* ------------------------------------------------------ node.insertLeaf
InsertPanic(h) == [h |-> h, prev |-> NoItem, ok |-> FALSE]

\* Mutant of InsertLeaf: a fresh item is written after the last item,
\* whatever its order (no insertion point, no shift).
InsertLeafAppend(h, id, newItem) ==
    LET nd == h[id]
        s  == Scan(nd, newItem, 0)
        i  == IF s.c = equal THEN s.i ELSE nd.n
    IN  IF s.panic \/ i >= Len(nd.items) THEN InsertPanic(h)
        ELSE
        LET prev == IF s.c = equal THEN nd.items[i + 1] ELSE NoItem
            nd2  == [nd EXCEPT !.items = [nd.items EXCEPT ![i + 1] = newItem],
                               !.n = IF prev = NoItem THEN @ + 1 ELSE @]
        IN  [h |-> [h EXCEPT ![id] = nd2], prev |-> prev, ok |-> TRUE]

InsertLeaf(h, id, newItem) ==
    LET nd == h[id]
        s  == Scan(nd, newItem, 0)
        i  == s.i
    IN  IF s.panic \/ i >= Len(nd.items) THEN InsertPanic(h)
        ELSE
        LET prev    == IF s.c = equal THEN nd.items[i + 1] ELSE NoItem
            shifted == IF s.c = lessThan
                       THEN SliceCopy(nd.items, i + 1, nd.items, i)
                       ELSE nd.items
            nd2     == [nd EXCEPT !.items = [shifted EXCEPT ![i + 1] = newItem],
                                  !.n = IF prev = NoItem THEN @ + 1 ELSE @]
        IN  [h |-> [h EXCEPT ![id] = nd2], prev |-> prev, ok |-> TRUE]

\* ------------------------------------------------------ node.splitChild
SplitPanic(h) == [h |-> h, median |-> NoItem, ok |-> FALSE]

\* Mutant of SplitRight: the upper half is copied from index t-1, so the
\* median goes to z as well and y's last item is dropped.
SplitRightOffByOne(y, tt) ==
    LET z0 == newNode(tt, y.isLeaf)
    IN  [z0 EXCEPT
            !.items = SliceCopy(z0.items, 0, y.items, tt - 1),
            !.n = tt - 1,
            !.children = IF ~y.isLeaf
                         THEN SliceCopy(z0.children, 0, y.children, tt)
                         ELSE z0.children]

\* Mutant of SplitRight: z is always created as a leaf.
SplitRightAlwaysLeaf(y, tt) ==
    LET z0 == newNode(tt, TRUE)
    IN  [z0 EXCEPT
            !.items = SliceCopy(z0.items, 0, y.items, tt),
            !.n = tt - 1]

\* The new right sibling z of a full child y: y's items t.. and, for an
\* internal y, its children t..
SplitRight(y, tt) ==
    LET z0 == newNode(tt, y.isLeaf)
    IN  [z0 EXCEPT
            !.items = SliceCopy(z0.items, 0, y.items, tt),
            !.n = tt - 1,
            !.children = IF ~y.isLeaf
                         THEN SliceCopy(z0.children, 0, y.children, tt)
                         ELSE z0.children]

\* Mutant of SplitChild: the parent's count is not incremented.
SplitChildNoCount(h, id, tt, i) ==
    LET nd == h[id]
    IN  IF i >= Len(nd.children) THEN SplitPanic(h)
        ELSE IF nd.children[i + 1] = NilNode THEN SplitPanic(h)
        ELSE IF i + 1 > Len(nd.items) \/ i + 2 > Len(nd.children) THEN SplitPanic(h)
        ELSE
        LET yid    == nd.children[i + 1]
            y      == h[yid]
            median == y.items[tt]
            z      == SplitRight(y, tt)
            y2     == [y EXCEPT !.n = tt - 1]
            zid    == Len(h) + 1
            nitems == [SliceCopy(nd.items, i + 1, nd.items, i) EXCEPT ![i + 1] = median]
            nkids  == [SliceCopy(nd.children, i + 2, nd.children, i + 1)
                          EXCEPT ![i + 2] = zid]
            n2     == [nd EXCEPT !.items = nitems, !.children = nkids]
        IN  [h |-> Append([h EXCEPT ![yid] = y2, ![id] = n2], z),
             median |-> median, ok |-> TRUE]

\* Mutant of SplitChild: the median is taken at index t instead of t-1.
SplitChildWrongMedian(h, id, tt, i) ==
    LET nd == h[id]
    IN  IF i >= Len(nd.children) THEN SplitPanic(h)
        ELSE IF nd.children[i + 1] = NilNode THEN SplitPanic(h)
        ELSE IF i + 1 > Len(nd.items) \/ i + 2 > Len(nd.children) THEN SplitPanic(h)
        ELSE
        LET yid    == nd.children[i + 1]
            y      == h[yid]
            median == y.items[tt + 1]
            z      == SplitRight(y, tt)
            y2     == [y EXCEPT !.n = tt - 1]
            zid    == Len(h) + 1
            nitems == [SliceCopy(nd.items, i + 1, nd.items, i) EXCEPT ![i + 1] = median]
            nkids  == [SliceCopy(nd.children, i + 2, nd.children, i + 1)
                          EXCEPT ![i + 2] = zid]
            n2     == [nd EXCEPT !.items = nitems, !.n = @ + 1, !.children = nkids]
        IN  [h |-> Append([h EXCEPT ![yid] = y2, ![id] = n2], z),
             median |-> median, ok |-> TRUE]

SplitChild(h, id, tt, i) ==
    LET nd == h[id]
    IN  IF i >= Len(nd.children) THEN SplitPanic(h)
        ELSE IF nd.children[i + 1] = NilNode THEN SplitPanic(h)
        ELSE IF i + 1 > Len(nd.items) \/ i + 2 > Len(nd.children) THEN SplitPanic(h)
        ELSE
        LET yid    == nd.children[i + 1]
            y      == h[yid]
            median == y.items[tt]
            z      == SplitRight(y, tt)
            y2     == [y EXCEPT !.n = tt - 1]
            zid    == Len(h) + 1
            nitems == [SliceCopy(nd.items, i + 1, nd.items, i) EXCEPT ![i + 1] = median]
            nkids  == [SliceCopy(nd.children, i + 2, nd.children, i + 1)
                          EXCEPT ![i + 2] = zid]
            n2     == [nd EXCEPT !.items = nitems, !.n = @ + 1, !.children = nkids]
        IN  [h |-> Append([h EXCEPT ![yid] = y2, ![id] = n2], z),
             median |-> median, ok |-> TRUE]

\* ---------------------------------------------------------- node.insert
\* Mutant of ReplaceAt: the new item is returned instead of the old one.
ReplaceAtReturnsNew(h, id, i, newItem) ==
    [h |-> [h EXCEPT ![id].items[i + 1] = newItem],
     prev |-> newItem, ok |-> TRUE]

\* Mutant of ReplaceAt: the old item is returned but not overwritten.
ReplaceAtKeepsOld(h, id, i, newItem) ==
    [h |-> h, prev |-> h[id].items[i + 1], ok |-> TRUE]

\* prev = n.items[i]; n.items[i] = newItem; return
ReplaceAt(h, id, i, newItem) ==
    [h |-> [h EXCEPT ![id].items[i + 1] = newItem],
     prev |-> h[id].items[i + 1], ok |-> TRUE]

\* Mutant of ChildIsFull: compares with the child capacity 2t, which an
\* item count never reaches.
ChildIsFullOffByOne(h, c, tt) == h[c].n = 2 * tt

\* c.n == 2*t-1
ChildIsFull(h, c, tt) == h[c].n = 2 * tt - 1

\* History of one node.insert call, kept beside its result:
\*   path  where the call ended: "fresh" (a new item in a leaf), "leaf"
\*         (replace in a leaf), "scan" (replace found by the scan of an
\*         internal node), "median" (replace of the median just promoted),
\*         "panic";
\*   full  what happened on a node that already held 2t-1 items: "call"
\*         (node.insert invoked on it), "split" (splitChild promoted a
\*         median into it), "fresh" (insertLeaf added a fresh item to it).
Traced(r, path, full) ==
    [h |-> r.h, prev |-> r.prev, ok |-> r.ok, path |-> path, full |-> full]

\* The result r of a nested call, with the full-node events of the caller.
WithFull(r, full) == [r EXCEPT !.full = @ \cup full]

NodeIsFull(h, id, tt) == h[id].n >= 2 * tt - 1

RECURSIVE NodeInsert(_, _, _, _)
NodeInsert(h, id, tt, newItem) ==
    IF id = NilNode THEN Traced(InsertPanic(h), "panic", {})
    ELSE
    LET onFull == IF NodeIsFull(h, id, tt) THEN {"call"} ELSE {}
    IN
    IF h[id].isLeaf
    THEN LET r == InsertLeaf(h, id, newItem)
         IN  IF ~r.ok THEN Traced(r, "panic", onFull)
             ELSE IF r.prev # NoItem THEN Traced(r, "leaf", onFull)
             ELSE Traced(r, "fresh",
                         IF NodeIsFull(h, id, tt) THEN {"call", "fresh"} ELSE {})
    ELSE
    LET nd == h[id]
        s  == Scan(nd, newItem, 0)
        i  == s.i
    IN  IF s.panic THEN Traced(InsertPanic(h), "panic", onFull)
        ELSE IF s.c = equal THEN Traced(ReplaceAt(h, id, i, newItem), "scan", onFull)
        ELSE IF i >= Len(nd.children) THEN Traced(InsertPanic(h), "panic", onFull)
        ELSE IF nd.children[i + 1] = NilNode
             THEN Traced(InsertPanic(h), "panic", onFull)
        ELSE
        LET c == nd.children[i + 1]
        IN  IF ChildIsFull(h, c, tt)
            THEN LET sp      == SplitChild(h, id, tt, i)
                     onSplit == IF NodeIsFull(h, id, tt)
                                THEN {"call", "split"} ELSE {}
                 IN  IF ~sp.ok \/ ComparePanics(sp.median)
                     THEN Traced(InsertPanic(h), "panic", onSplit)
                     ELSE IF Compare(newItem, sp.median) = lessThan
                          THEN WithFull(NodeInsert(sp.h, c, tt, newItem), onSplit)
                     ELSE IF Compare(newItem, sp.median) = equal
                          THEN Traced(ReplaceAt(sp.h, id, i, newItem), "median",
                                      onSplit)
                     ELSE WithFull(NodeInsert(sp.h, sp.h[id].children[i + 2],
                                              tt, newItem), onSplit)
            ELSE WithFull(NodeInsert(h, c, tt, newItem), onFull)

\* --------------------------------------------------------- btree.insert
\* Mutant of RootIsFull: compares with 2t, so the root never grows.
RootIsFullOffByOne(bb, h) == h[bb.root].n = 2 * bb.t

\* Mutant of RootIsFull: the root grows one item early.
RootIsFullEarly(bb, h) == h[bb.root].n >= 2 * bb.t - 2

\* b.root.n == 2*b.t - 1
RootIsFull(bb, h) == h[bb.root].n = 2 * bb.t - 1

\* Mutant of LenAfter: len is incremented on a replace too.
LenAfterAlways(len, prev) == len + 1

\* if prev == nil { b.len++ }
LenAfter(len, prev) == IF prev = NoItem THEN len + 1 ELSE len

\* oldRoot := b.root; b.root = newNode(b.t, false); b.root.children[0] = oldRoot
\* The heap with the new root appended (its address: Len(h) + 1).
GrowRoot(bb, h) ==
    Append(h, [newNode(bb.t, FALSE) EXCEPT !.children[1] = bb.root])

BtreeInsert(bb, h, item) ==
    LET grow  == RootIsFull(bb, h)
        root1 == IF grow THEN Len(h) + 1 ELSE bb.root
        h1    == IF grow THEN GrowRoot(bb, h) ELSE h
        sp    == IF grow THEN SplitChild(h1, root1, bb.t, 0)
                 ELSE [h |-> h1, median |-> NoItem, ok |-> TRUE]
        r     == IF sp.ok THEN NodeInsert(sp.h, root1, bb.t, item)
                 ELSE Traced(InsertPanic(sp.h), "panic", {})
    IN  [b     |-> [bb EXCEPT !.root = root1,
                              !.len = IF r.ok THEN LenAfter(@, r.prev) ELSE @],
         h     |-> r.h,
         prev  |-> r.prev,
         ok    |-> r.ok,
         trace |-> [grew |-> grow, path |-> r.path, full |-> r.full]]

\* ---------------------------------------------- btree.checkInvariances
\* traverseItems: for each i < n.n the child i (if internal) and then the
\* item i; after the loop the child n.n.
RECURSIVE InOrder(_, _)
RECURSIVE InOrderFrom(_, _, _)
InOrderFrom(h, id, i) ==
    LET nd  == h[id]
        sub == IF ~nd.isLeaf THEN InOrder(h, nd.children[i + 1]) ELSE << >>
    IN  IF i < nd.n THEN sub \o << nd.items[i + 1] >> \o InOrderFrom(h, id, i + 1)
        ELSE sub

InOrder(h, id) == InOrderFrom(h, id, 0)

\* traverseNode: the node, then its children 0..n.n (pre-order); the result
\* is the sequence of nodes visited.
RECURSIVE TraverseNode(_, _)
RECURSIVE TraverseNodeFrom(_, _, _)
TraverseNodeFrom(h, id, i) ==
    IF i < h[id].n + 1
    THEN TraverseNode(h, h[id].children[i + 1]) \o TraverseNodeFrom(h, id, i + 1)
    ELSE << >>

TraverseNode(h, id) ==
    << id >> \o (IF ~h[id].isLeaf THEN TraverseNodeFrom(h, id, 0) ELSE << >>)

\* traverseHeight: the level of every leaf, the root being level 1.
RECURSIVE LeafHeights(_, _, _)
RECURSIVE LeafHeightsFrom(_, _, _, _)
LeafHeightsFrom(h, id, level, i) ==
    IF i <= h[id].n
    THEN LeafHeights(h, h[id].children[i + 1], level + 1)
             \o LeafHeightsFrom(h, id, level, i + 1)
    ELSE << >>

LeafHeights(h, id, level) ==
    IF h[id].isLeaf THEN << level >> ELSE LeafHeightsFrom(h, id, level, 0)

\* The traversals dereference items[0..n-1] and children[0..n] of every
\* node they visit: they run to completion exactly on these structures.
RECURSIVE WellFormed(_, _)
WellFormed(h, id) ==
    /\ id # NilNode
    /\ id \in DOMAIN h
    /\ h[id].n <= Len(h[id].items)
    /\ \/ h[id].isLeaf
       \/ /\ h[id].n + 1 <= Len(h[id].children)
          /\ \A i \in 1..(h[id].n + 1) : WellFormed(h, h[id].children[i])

\* Mutant of OrderError: Equal neighbours are not reported.
RECURSIVE OrderErrorNoDup(_, _)
OrderErrorNoDup(items, i) ==
    IF i >= Len(items) THEN "nil"
    ELSE IF Compare(items[i + 1], items[i]) = lessThan THEN "not in sorted order"
    ELSE OrderErrorNoDup(items, i + 1)

\* The first failure of the ordering loop over the collected items.
RECURSIVE OrderError(_, _)
OrderError(items, i) ==
    IF i >= Len(items) THEN "nil"
    ELSE IF Compare(items[i + 1], items[i]) = equal THEN "duplicate items"
    ELSE IF Compare(items[i + 1], items[i]) = lessThan THEN "not in sorted order"
    ELSE OrderError(items, i + 1)

RootCountError(bb, h) == h[bb.root].n > 2 * bb.t - 1

NodeCountError(bb, h) ==
    /\ ~h[bb.root].isLeaf
    /\ \E i \in 1..(h[bb.root].n + 1) :
          LET nodes == TraverseNode(h, h[bb.root].children[i])
          IN  \E j \in 1..Len(nodes) :
                 h[nodes[j]].n < bb.t - 1 \/ h[nodes[j]].n > 2 * bb.t - 1

HeightError(bb, h) ==
    LET leafHeights == LeafHeights(h, bb.root, 1)
    IN  \E j \in 1..Len(leafHeights) : leafHeights[j] # leafHeights[1]

\* The error checkInvariances returns ("nil": none); "panic" when a
\* traversal would dereference a nil child or index outside an array.
CheckInvariances(bb, h) ==
    IF ~WellFormed(h, bb.root) THEN "panic"
    ELSE IF OrderError(InOrder(h, bb.root), 1) # "nil"
         THEN OrderError(InOrder(h, bb.root), 1)
    ELSE IF RootCountError(bb, h) THEN "root node has invalid n"
    ELSE IF NodeCountError(bb, h) THEN "one of the nodes has invalid n"
    ELSE IF HeightError(bb, h) THEN "leaf heights differ"
    ELSE "nil"

\* ------------------------------------------------------------- the state
VARIABLES
    b,         \* the btree handle: [root, t, len]; NoTree before newBTree
    heap,      \* the nodes allocated so far
    op,        \* the last call: [name, t, item]
    ret,       \* the item the last search or insert returned (NoItem: nil)
    err,       \* the error the last checkInvariances returned ("": no check)
    halted,    \* the last call panicked; the program has ended
    inserted,  \* history: the keys passed to insert so far
    trace      \* history: how the last insert ran (NoTrace: no insert)

vars == << b, heap, op, ret, err, halted, inserted, trace >>

NoTrace == [grew |-> FALSE, path |-> "", full |-> {}]

NoTree == [root |-> NilNode, t |-> 0, len |-> 0]

Call(name, tt, item) == [name |-> name, t |-> tt, item |-> item]

Init ==
    /\ b = NoTree
    /\ heap = << >>
    /\ op = Call("none", 0, NoItem)
    /\ ret = NoItem
    /\ err = ""
    /\ halted = FALSE
    /\ inserted = {}
    /\ trace = NoTrace

\* Mutant of InvalidDegree: the guard lets t = 1 through.
InvalidDegreeOffByOne(tt) == tt < 1

\* if t < 2 { panic(...) }
InvalidDegree(tt) == tt < 2

\* newBTree(t): panics for t < 2, else a tree whose root is an empty leaf.
NewBTree(tt) ==
    /\ ~halted
    /\ b = NoTree
    /\ op' = Call("newBTree", tt, NoItem)
    /\ IF InvalidDegree(tt)
       THEN /\ halted' = TRUE
            /\ UNCHANGED << b, heap >>
       ELSE /\ halted' = FALSE
            /\ heap' = << newNode(tt, TRUE) >>
            /\ b' = [root |-> 1, t |-> tt, len |-> 0]
    /\ ret' = NoItem
    /\ err' = ""
    /\ trace' = NoTrace
    /\ UNCHANGED inserted

\* b.insert(item)
Insert(item) ==
    /\ ~halted
    /\ b # NoTree
    /\ LET r == BtreeInsert(b, heap, item)
       IN  /\ b' = r.b
           /\ heap' = r.h
           /\ ret' = r.prev
           /\ halted' = ~r.ok
           /\ trace' = r.trace
    /\ op' = Call("insert", 0, item)
    /\ err' = ""
    /\ inserted' = inserted \cup {item.key}

\* Mutant of Search: the search counts itself in len.
SearchBumpsLen(item) ==
    /\ ~halted
    /\ b # NoTree
    /\ LET r == NodeSearch(heap, b.root, item)
       IN  /\ ret' = r.res
           /\ halted' = ~r.ok
    /\ op' = Call("search", 0, item)
    /\ err' = ""
    /\ trace' = NoTrace
    /\ b' = [b EXCEPT !.len = @ + 1]
    /\ UNCHANGED << heap, inserted >>

\* b.search(item)
Search(item) ==
    /\ ~halted
    /\ b # NoTree
    /\ LET r == NodeSearch(heap, b.root, item)
       IN  /\ ret' = r.res
           /\ halted' = ~r.ok
    /\ op' = Call("search", 0, item)
    /\ err' = ""
    /\ trace' = NoTrace
    /\ UNCHANGED << b, heap, inserted >>

\* b.checkInvariances()
Check ==
    /\ ~halted
    /\ b # NoTree
    /\ err' = CheckInvariances(b, heap)
    /\ halted' = (CheckInvariances(b, heap) = "panic")
    /\ op' = Call("checkInvariances", 0, NoItem)
    /\ ret' = NoItem
    /\ trace' = NoTrace
    /\ UNCHANGED << b, heap, inserted >>

Next ==
    \/ \E tt \in Degrees : NewBTree(tt)
    \/ \E item \in Items : Insert(item)
    \/ \E k \in Keys : Search([key |-> k, val |-> 1])
    \/ Check

Spec == Init /\ [][Next]_vars

\* ------------------------------------- checkInvariances on any structure
\* checkInvariances is a method of btree: it runs on whatever nodes hang
\* below b.root, not only on trees that insert has built.  The second
\* specification builds such structures node by node from newNode, with
\* items in any order and any count the arrays can hold, keeping
\* children[0..n] of every internal node populated.

RECURSIVE ItemTotal(_, _)
ItemTotal(h, i) == IF i > Len(h) THEN 0 ELSE h[i].n + ItemTotal(h, i + 1)

\* A btree of degree CheckT over a single empty leaf; the nodes have the
\* arrays of degree MaxT, so that a count can exceed 2t-1.
InitCheck ==
    /\ b = [root |-> 1, t |-> CheckT, len |-> 0]
    /\ heap = << newNode(MaxT, TRUE) >>
    /\ op = Call("none", 0, NoItem)
    /\ ret = NoItem
    /\ err = ""
    /\ halted = FALSE
    /\ inserted = {}
    /\ trace = NoTrace

\* n.items[n.n] = item; n.n++ (and, for an internal node, a new empty leaf
\* as the child after the item).
AddItem(id, k) ==
    /\ ~halted
    /\ id \in DOMAIN heap
    /\ heap[id].n < Len(heap[id].items)
    /\ ItemTotal(heap, 1) < MaxCheckItems
    /\ LET nd == heap[id]
           it == [key |-> k, val |-> 1]
       IN  IF nd.isLeaf
           THEN heap' = [heap EXCEPT ![id].items[nd.n + 1] = it,
                                     ![id].n = nd.n + 1]
           ELSE /\ Len(heap) < MaxCheckNodes
                /\ heap' = Append([heap EXCEPT ![id].items[nd.n + 1] = it,
                                               ![id].n = nd.n + 1,
                                               ![id].children[nd.n + 2] = Len(heap) + 1],
                                  newNode(MaxT, TRUE))
    /\ op' = Call("none", 0, NoItem)
    /\ err' = ""
    /\ UNCHANGED << b, ret, halted, inserted, trace >>

\* An empty leaf becomes an internal node over a new empty leaf.
MakeInternal(id) ==
    /\ ~halted
    /\ id \in DOMAIN heap
    /\ heap[id].isLeaf
    /\ heap[id].n = 0
    /\ Len(heap) < MaxCheckNodes
    /\ heap' = Append([heap EXCEPT ![id] = [newNode(MaxT, FALSE)
                                              EXCEPT !.children[1] = Len(heap) + 1]],
                      newNode(MaxT, TRUE))
    /\ op' = Call("none", 0, NoItem)
    /\ err' = ""
    /\ UNCHANGED << b, ret, halted, inserted, trace >>

NextCheck ==
    \/ \E id \in 1..MaxCheckNodes : \E k \in 1..MaxCheckKey : AddItem(id, k)
    \/ \E id \in 1..MaxCheckNodes : MakeInternal(id)
    \/ Check

SpecCheck == InitCheck /\ [][NextCheck]_vars

\* ----------------------------------------------------- what is stored
HasTree == b # NoTree

\* The in-order item sequence of the tree and its keys.
TreeItems == InOrder(heap, b.root)
TreeKeys == {TreeItems[j].key : j \in 1..Len(TreeItems)}

\* The item stored under key k before a call (NoItem: none).
Stored(k) ==
    IF \E j \in 1..Len(TreeItems) : TreeItems[j].key = k
    THEN TreeItems[CHOOSE j \in 1..Len(TreeItems) : TreeItems[j].key = k]
    ELSE NoItem

\* The nodes reachable from the root through children[0..n], the root first.
TreeNodes == TraverseNode(heap, b.root)
NonRootNodes == {TreeNodes[j] : j \in 2..Len(TreeNodes)}

\* The depth of the tree along its leftmost path (a leaf root: 1).
RECURSIVE LeftDepth(_, _)
LeftDepth(h, id) ==
    IF h[id].isLeaf THEN 1 ELSE 1 + LeftDepth(h, h[id].children[1])

\* The (depth, isLeaf) pairs of the nodes of the subtree at id.
RECURSIVE DepthFlags(_, _, _)
DepthFlags(h, id, d) ==
    {<< d, h[id].isLeaf >>} \cup
    (IF h[id].isLeaf THEN {}
     ELSE UNION {DepthFlags(h, h[id].children[i], d + 1) : i \in 1..(h[id].n + 1)})

\* ------------------------------------------------------------ the claims

\* C1: search finds every stored key: a search for a key that has been
\* inserted returns, without halting, an item that compares Equal to it.
C1_SearchFindsStored ==
    (op.name = "search" /\ op.item.key \in inserted)
        => (~halted /\ ret # NoItem /\ Compare(op.item, ret) = equal)

\* C2: a search for a key that was never inserted returns absent (nil)
\* and does not halt.
C2_SearchMissingAbsent ==
    (op.name = "search" /\ op.item.key \notin inserted)
        => (~halted /\ ret = NoItem)

\* C3: no key is lost or invented: the in-order traversal yields exactly
\* the distinct keys that were inserted, each once.
C3_NoKeyLostOrInvented ==
    HasTree =>
        /\ WellFormed(heap, b.root)
        /\ TreeKeys = inserted
        /\ Len(TreeItems) = Cardinality(inserted)

\* C3 witness: after root growth and a further split, a repeated key has
\* just been inserted.
C3_Witness ==
    /\ HasTree
    /\ Len(heap) >= 4
    /\ op.name = "insert"
    /\ ret # NoItem
    /\ Cardinality(inserted) >= 5

\* C4: the in-order traversal is strictly ascending under compare, with no
\* two items comparing Equal.
C4_StrictlyAscending ==
    HasTree =>
        /\ WellFormed(heap, b.root)
        /\ \A j \in 1..(Len(TreeItems) - 1) :
              Compare(TreeItems[j], TreeItems[j + 1]) = lessThan

\* C4 witness: an internal root over at least six items.
C4_Witness ==
    /\ HasTree
    /\ ~heap[b.root].isLeaf
    /\ Len(TreeItems) >= 6

\* C5: after every insert every node other than the root holds between
\* t-1 and 2t-1 items, and the root at most 2t-1.
C5_Occupancy ==
    HasTree =>
        /\ WellFormed(heap, b.root)
        /\ heap[b.root].n <= 2 * b.t - 1
        /\ \A id \in NonRootNodes :
              heap[id].n >= b.t - 1 /\ heap[id].n <= 2 * b.t - 1

\* C5 witness: after an insert, one non-root node is at the minimum t-1 and
\* another at the maximum 2t-1.
C5_Witness ==
    /\ HasTree
    /\ op.name = "insert"
    /\ \E id \in NonRootNodes : heap[id].n = b.t - 1
    /\ \E id \in NonRootNodes : heap[id].n = 2 * b.t - 1

\* C6: every leaf is at the same depth and every node at a given depth has
\* the same isLeaf flag.
C6_Balanced ==
    HasTree =>
        /\ WellFormed(heap, b.root)
        /\ \A x, y \in DepthFlags(heap, b.root, 1) :
              (x[1] = y[1] => x[2] = y[2]) /\ (x[2] /\ y[2] => x[1] = y[1])

\* C6 witness: a tree of three levels (an internal node has been split).
C6_Witness ==
    /\ HasTree
    /\ LeftDepth(heap, b.root) = 3

\* C7: insert(x) returns nil iff no item Equal to x was stored before the
\* call; otherwise it returns exactly the item stored before the call, and
\* len is unchanged.
C7_InsertReturnsPrevious ==
    [][(op'.name = "insert" /\ Insert(op'.item)) =>
          /\ ret' = Stored(op'.item.key)
          /\ (ret' = NoItem) <=> (op'.item.key \notin TreeKeys)
          /\ (Stored(op'.item.key) # NoItem => b'.len = b.len)]_vars

\* C7 witness: an insert has just returned a stored item whose payload
\* differs from the one inserted.
C7_Witness ==
    /\ op.name = "insert"
    /\ ret # NoItem
    /\ ret.val # op.item.val
    /\ ~heap[b.root].isLeaf

\* C8: len equals the number of items of the in-order traversal and the
\* number of distinct keys inserted so far (0 for a new tree).
C8_LenTracksItems ==
    HasTree =>
        /\ b.len = Len(TreeItems)
        /\ b.len = Cardinality(inserted)

\* C8 witness: every key is stored and the last insert was a replace.
C8_Witness ==
    /\ HasTree
    /\ b.len = MaxKey
    /\ op.name = "insert"
    /\ ret # NoItem

\* C9: newBTree(t) panics without producing a tree for t < 2; for t >= 2
\* it returns a tree with the given t, len 0 and an empty leaf root, on
\* which checkInvariances passes.
C9_ConstructionGuard ==
    op.name = "newBTree" =>
        IF op.t < 2
        THEN halted /\ b = NoTree /\ heap = << >>
        ELSE /\ ~halted
             /\ b.t = op.t
             /\ b.len = 0
             /\ heap[b.root].isLeaf
             /\ heap[b.root].n = 0
             /\ heap[b.root].children = << >>
             /\ CheckInvariances(b, heap) = "nil"

\* C9 witness: newBTree(1) has panicked.
C9_Witness ==
    /\ op.name = "newBTree"
    /\ op.t = 1
    /\ halted

\* C10: no insert halts: it never indexes outside an item or child array
\* and never descends into an empty child slot.
C10_InsertNeverHalts ==
    op.name = "insert" => ~halted

\* C10 witness: an insert that descended through internal nodes of a tree
\* of three levels has returned.
C10_Witness ==
    /\ op.name = "insert"
    /\ ~halted
    /\ LeftDepth(heap, b.root) = 3

\* The number of populated (non-nil) slots of a node's children array.
ChildCount(nd) == Cardinality({j \in 1..Len(nd.children) : nd.children[j] # NilNode})

\* The item stored under key k in the tree rooted at r of heap h.
StoredIn(h, r, k) ==
    LET its == InOrder(h, r)
    IN  IF \E j \in 1..Len(its) : its[j].key = k
        THEN its[CHOOSE j \in 1..Len(its) : its[j].key = k]
        ELSE NoItem

\* The last step was a call of insert.
InsertStep == op'.name = "insert" /\ Insert(op'.item)

\* C11: with t = 2, once 4 or more distinct keys have been inserted the
\* root is internal with between 2 and 4 children, each holding 1 to 3
\* items.
C11_RootAfterFourKeys ==
    (HasTree /\ b.t = 2 /\ Cardinality(inserted) >= 4) =>
        LET root == heap[b.root]
        IN  /\ ~root.isLeaf
            /\ ChildCount(root) = root.n + 1
            /\ ChildCount(root) >= 2 /\ ChildCount(root) <= 4
            /\ \A i \in 1..(root.n + 1) :
                  /\ root.children[i] # NilNode
                  /\ heap[root.children[i]].n >= 1
                  /\ heap[root.children[i]].n <= 3

\* C11 witness: t = 2 and the root has four children.
C11_Witness ==
    /\ HasTree
    /\ b.t = 2
    /\ Cardinality(inserted) >= 4
    /\ ChildCount(heap[b.root]) = 4

\* C12: when insert(x) finds an item with an Equal key, afterwards the
\* item stored under that key is x itself and every other stored item is
\* unchanged, on every path (leaf, scan of an internal node, promoted
\* median).
C12_ReplaceWholesale ==
    [][(InsertStep /\ Stored(op'.item.key) # NoItem) =>
          /\ trace'.path \in {"leaf", "scan", "median"}
          /\ LET old == InOrder(heap, b.root)
                 new == InOrder(heap', b'.root)
             IN  /\ Len(new) = Len(old)
                 /\ \A j \in 1..Len(old) :
                       new[j] = IF old[j].key = op'.item.key THEN op'.item
                                ELSE old[j]]_vars

\* C12 witness: the median just promoted by a split of the full child has
\* been replaced by an item with another payload.
C12_Witness ==
    /\ op.name = "insert"
    /\ trace.path = "median"
    /\ ret # NoItem
    /\ ret.val # op.item.val
    /\ StoredIn(heap, b.root, op.item.key) = op.item

\* The postcondition of splitChild(t, i) on node p of heap h.
SplitPost(h, p, tt, i) ==
    LET r   == SplitChild(h, p, tt, i)
        n0  == h[p]
        yid == n0.children[i + 1]
        y   == h[yid]
        zid == Len(h) + 1
    IN  /\ r.ok
        /\ Len(r.h) = Len(h) + 1
        /\ LET y2 == r.h[yid]
               z  == r.h[zid]
               n1 == r.h[p]
           IN  /\ y2.n = tt - 1
               /\ y2.isLeaf = y.isLeaf
               /\ \A j \in 1..(tt - 1) : y2.items[j] = y.items[j]
               /\ ~y.isLeaf => \A j \in 1..tt : y2.children[j] = y.children[j]
               /\ z.isLeaf = y.isLeaf
               /\ z.n = tt - 1
               /\ \A j \in 1..(tt - 1) : z.items[j] = y.items[tt + j]
               /\ ~y.isLeaf => \A j \in 1..tt : z.children[j] = y.children[tt + j]
               /\ y.isLeaf => z.children = << >>
               /\ r.median = y.items[tt]
               /\ n1.items[i + 1] = y.items[tt]
               /\ \A j \in 1..i : n1.items[j] = n0.items[j]
               /\ \A j \in (i + 1)..n0.n : n1.items[j + 1] = n0.items[j]
               /\ \A j \in 1..(i + 1) : n1.children[j] = n0.children[j]
               /\ \A j \in (i + 2)..(n0.n + 1) : n1.children[j + 1] = n0.children[j]
               /\ n1.children[i + 2] = zid
               /\ n1.n = n0.n + 1
               /\ n1.isLeaf = n0.isLeaf
               /\ \A q \in DOMAIN h : (q # p /\ q # yid) => r.h[q] = h[q]

\* C13: splitChild on a non-full parent whose child i holds 2t-1 items
\* leaves y with its first t-1 items (and first t children), creates z
\* with y's flag and the items t..2t-2 (children t..2t-1), returns the item
\* t-1 and puts it at parent.items[i], shifts the parent's items i.. and
\* children i+1.. right by one, puts z at children[i+1] and increments the
\* parent's count.  Checked for every such parent and child of the tree,
\* and for the new root of a full root.
C13_SplitChildPost ==
    HasTree =>
        /\ \A p \in {TreeNodes[j] : j \in 1..Len(TreeNodes)} :
              (~heap[p].isLeaf /\ heap[p].n < 2 * b.t - 1) =>
                  \A i \in 0..heap[p].n :
                      heap[heap[p].children[i + 1]].n = 2 * b.t - 1
                          => SplitPost(heap, p, b.t, i)
        /\ heap[b.root].n = 2 * b.t - 1
              => SplitPost(GrowRoot(b, heap), Len(heap) + 1, b.t, 0)

\* C13 witness: a full internal root, whose split moves children.
C13_Witness ==
    /\ HasTree
    /\ ~halted
    /\ ~heap[b.root].isLeaf
    /\ heap[b.root].n = 2 * b.t - 1
    /\ ChildCount(heap[b.root]) = 2 * b.t

\* C14: an insert replaces the root by a new internal node iff the root
\* held 2t-1 items when the call started; then the new root holds the old
\* root's median over the old root and the new sibling and the height grows
\* by one; otherwise root and height are unchanged.
C14_RootGrowth ==
    [][InsertStep =>
          IF heap[b.root].n = 2 * b.t - 1
          THEN LET g == SplitChild(GrowRoot(b, heap), Len(heap) + 1, b.t, 0)
               IN  /\ trace'.grew
                   /\ b'.root = Len(heap) + 1
                   /\ b'.root # b.root
                   /\ g.h[b'.root].items[1] = heap[b.root].items[b.t]
                   /\ ~heap'[b'.root].isLeaf
                   /\ heap'[b'.root].n = 1
                   /\ Compare(heap'[b'.root].items[1], heap[b.root].items[b.t]) = equal
                   /\ heap'[b'.root].children[1] = b.root
                   /\ heap'[b'.root].children[2] = Len(heap) + 2
                   /\ ChildCount(heap'[b'.root]) = 2
                   /\ LeftDepth(heap', b'.root) = LeftDepth(heap, b.root) + 1
          ELSE /\ ~trace'.grew
               /\ b'.root = b.root
               /\ LeftDepth(heap', b'.root) = LeftDepth(heap, b.root)]_vars

\* C14 witness: the last insert replaced a full internal root.
C14_Witness ==
    /\ op.name = "insert"
    /\ trace.grew
    /\ LeftDepth(heap, b.root) = 3

\* C15: every invocation of node.insert is on a node with fewer than 2t-1
\* items, so splitChild never promotes into a full node and insertLeaf
\* never adds a fresh item to a full leaf.
C15_NoSecondSplit ==
    op.name = "insert" => trace.full = {}

\* C15 witness: an insert that grew the root and then added a fresh item
\* to a leaf.
C15_Witness ==
    /\ op.name = "insert"
    /\ ~halted
    /\ trace.grew
    /\ trace.path = "fresh"
    /\ trace.full = {}

\* C16: every internal node reachable from the root has exactly n+1
\* populated child slots (the left node of an internal split included);
\* leaves have none.
C16_ChildCount ==
    HasTree =>
        \A j \in 1..Len(TreeNodes) :
            LET nd == heap[TreeNodes[j]]
            IN  IF nd.isLeaf THEN ChildCount(nd) = 0
                ELSE ChildCount(nd) = nd.n + 1

\* C18: search and checkInvariances never change the root reference, t,
\* len or any node.
C18_ReadOnly ==
    [][op'.name \in {"search", "checkInvariances"} =>
          /\ b' = b
          /\ heap' = heap
          /\ inserted' = inserted]_vars

\* C18 witness: a search has found a stored key below an internal root.
C18_Witness ==
    /\ op.name = "search"
    /\ ~halted
    /\ ret # NoItem
    /\ ~heap[b.root].isLeaf
    /\ \A j \in 1..heap[b.root].n : heap[b.root].items[j] # ret

\* The nodes of the subtree at id.
RECURSIVE Subtree(_, _)
Subtree(h, id) ==
    {id} \cup
    (IF h[id].isLeaf THEN {}
     ELSE UNION {Subtree(h, h[id].children[i]) : i \in 1..(h[id].n + 1)})

\* Every internal node has children[0..count] populated.
Populated(h, r) ==
    \A id \in Subtree(h, r) :
        h[id].isLeaf \/ \A i \in 1..(h[id].n + 1) : h[id].children[i] # NilNode

\* The predicate checkInvariances is stated to decide.
StatedInvariants(bb, h) ==
    LET its == InOrder(h, bb.root)
    IN  /\ \A i, j \in 1..Len(its) : i < j => its[i].key < its[j].key
        /\ h[bb.root].n <= 2 * bb.t - 1
        /\ \A id \in Subtree(h, bb.root) \ {bb.root} :
              h[id].n >= bb.t - 1 /\ h[id].n <= 2 * bb.t - 1
        /\ \A p, q \in DepthFlags(h, bb.root, 1) : (p[2] /\ q[2]) => p[1] = q[1]

====
